---- MODULE Spec2Model ----
(***************************************************************************)
(* Model of the MCU packetizer (mcu_packetizer.h / mcu_packetizer.c): the  *)
(* SensorPacket builder, its append operations and packet_serialize, with  *)
(* the PC-side decoder of the wire format, and of the Arduino sketch       *)
(* (packetizer.ino): receive_packet, and packet_init, packetize_data and   *)
(* output_packet with everything they give to Serial.                      *)
(*                                                                         *)
(* The specifications share the variables, each leaving those of the       *)
(* others at rest: Spec (one caller of the packet builder), SpecTypeSize   *)
(* (get_type_size), SpecDecode (the decoder), SpecShared (two callers      *)
(* appending to one packet), SpecReceive (receive_packet), SpecReceiveFair *)
(* (the same, with arriving bytes and the steps of receive_packet not put  *)
(* off forever) and SpecSketch (the sending side of the sketch).           *)
(*                                                                         *)
(* Numbers keep their C width: uint8_t values are reduced modulo 2^8 and   *)
(* uint16_t values modulo 2^16 wherever the code stores into such a type.  *)
(* A float or double value is represented by its IEEE-754 bit pattern,     *)
(* written as a tuple of bytes, most significant byte first; a uint8_t     *)
(* reading is the one-byte tuple <<v>>.                                    *)
(***************************************************************************)
EXTENDS Integers, Sequences, FiniteSets, TLC

VARIABLES
    packet,      \* the caller's SensorPacket
    host_order,  \* byte order of the build target: "little" or "big"
    call,        \* the last API call: its name, whether a pointer argument
                 \* was NULL, its return value, and for packet_init its
                 \* arguments
    buffer,      \* the bytes the last call wrote to the caller's output buffer
    appended,    \* ghost: the values appended with success since the last
                 \* successful packet_init, oldest first
    received,    \* decoder: the bytes of the frame handed to decode
    decoded,     \* decoder: <<>>, or <<r>> with r the result of decode on
                 \* the bytes in received
    callers,     \* shared builder: for each of two callers that append to
                 \* the one packet without synchronisation, where it stands
                 \* in its append and the locals of that append
    overlapped,  \* shared builder, ghost: an append began while the append
                 \* of the other caller was under way
    incoming,    \* sketch: the bytes the peer has sent that have not yet
                 \* reached the serial receive buffer, oldest first
    serial_rx,   \* sketch: the bytes in the serial receive buffer, oldest
                 \* first; Serial.available() is their number
    received_packet,
                 \* sketch: the Packet that the caller of receive_packet
                 \* passes
    rx,          \* sketch: where receive_packet stands, its local
                 \* bytes_read, the value it returned last, and as ghosts
                 \* the bytes it has read from Serial since it was called
                 \* and whether it has stored outside payload[0..63]
    current_packet,
                 \* sketch: the global Packet that packet_init and
                 \* packetize_data fill and output_packet sends
    serial_tx,   \* sketch: every byte the sketch has put on the serial
                 \* line, oldest first, each with the call that put it
                 \* there: "write" for Serial.write, "print" for
                 \* Serial.print and Serial.println
    sketch       \* sketch: the last call of the sending side with its
                 \* arguments, the number of calls so far, and the length
                 \* serial_tx had before the call

builder_vars == <<packet, host_order, call, buffer, appended>>
decoder_vars == <<received, decoded>>
shared_vars == <<callers, overlapped>>
arduino_vars == <<incoming, serial_rx, received_packet, rx>>
sender_vars == <<current_packet, serial_tx, sketch>>

\* The variables that no operation of the one-caller packet builder touches.
outside_builder == <<decoder_vars, shared_vars, arduino_vars, sender_vars>>
\* The variables that the receiving side does not touch.
outside_decoder == <<builder_vars, shared_vars, arduino_vars, sender_vars>>
\* The variables outside the packet builder that its two callers do not touch.
outside_shared == <<decoder_vars, arduino_vars, sender_vars>>
\* The variables that receive_packet does not touch.
outside_arduino == <<builder_vars, decoder_vars, shared_vars, sender_vars>>
\* The variables that the sending side of the sketch does not touch.
outside_sender == <<builder_vars, decoder_vars, shared_vars, arduino_vars>>

vars == <<builder_vars, outside_builder>>

-----------------------------------------------------------------------------
(* Program constants *)

DATA_TYPE_INT == 1
DATA_TYPE_FLOAT == 2
DATA_TYPE_DOUBLE == 3

\* packetizer.ino
MAX_PAYLOAD_SIZE == 64

\* sizeof(payload) of SensorPacket: uint8_t payload[255 * 8]
PAYLOAD_CAPACITY == 255 * 8

-----------------------------------------------------------------------------
(* Bounds of the model *)

\* Each of the first MaxVaried appended values is the sample of its position
\* or the last sample of its type; every later value is the last sample.
MaxVaried == 2

-----------------------------------------------------------------------------
(* Inputs *)

\* The packet_init calls of the caller, each <<null, slave_addr, type,
\* var_count>>, null telling that the packet pointer is NULL. A var_count of
\* 0 is rejected; 255 is the largest uint8_t; 64 and 65 floats, and 32 and
\* 33 doubles, are the first counts whose payload is 256 bytes or more; 255
\* doubles fill the whole payload array; 9 is a type code outside the
\* DataType enumeration.
InitCalls ==
    ({FALSE} \X {1, 2} \X
        (({DATA_TYPE_INT} \X {3})
         \cup ({DATA_TYPE_FLOAT} \X {3, 64, 65})
         \cup ({DATA_TYPE_DOUBLE} \X {3, 32, 33})
         \cup ({9} \X {3})))
    \cup ({FALSE} \X {1} \X {<<DATA_TYPE_INT, 255>>, <<DATA_TYPE_INT, 0>>})
    \cup ({FALSE} \X {2} \X {<<DATA_TYPE_FLOAT, 0>>, <<DATA_TYPE_DOUBLE, 255>>})
    \cup ({TRUE} \X {1} \X {<<DATA_TYPE_INT, 3>>})
    \cup ({TRUE} \X {2} \X {<<DATA_TYPE_DOUBLE, 0>>})

IntSamples == <<25, 60, 99>>
\* 3.25f = 0x40500000, 3.3f = 0x40533333, 2.5f = 0x40200000
FloatSamples == <<
    <<64, 80, 0, 0>>, <<64, 83, 51, 51>>, <<64, 32, 0, 0>> >>
\* 1.0 = 0x3FF0000000000000, pi = 0x400921FB54442D18, 2.5 = 0x4004000000000000
DoubleSamples == <<
    <<63, 240, 0, 0, 0, 0, 0, 0>>,
    <<64, 9, 33, 251, 84, 68, 45, 24>>,
    <<64, 4, 0, 0, 0, 0, 0, 0>> >>

\* The values the caller may pass for the element at 0-based position idx.
InputsAt(samples, idx) ==
    IF idx < MaxVaried /\ idx < Len(samples)
    THEN {samples[idx + 1], samples[Len(samples)]}
    ELSE {samples[Len(samples)]}

-----------------------------------------------------------------------------
(* C arithmetic *)

UINT8(x) == x % 256
UINT16(x) == x % 65536
\* conversion of an int to int16_t (two's complement)
INT16(x) == LET m == x % 65536 IN IF m >= 32768 THEN m - 65536 ELSE m

RECURSIVE Reverse(_)
Reverse(s) == IF s = <<>> THEN <<>> ELSE Append(Reverse(Tail(s)), Head(s))

\* Pointers: NULL, or the address of one object, written <<object>>.
NULL == <<>>
AddrOf(obj) == <<obj>>
Deref(p) == p[1]

-----------------------------------------------------------------------------
(* mcu_packetizer.c *)

\* get_type_size with sizeof(float) returned for DATA_TYPE_DOUBLE too.
get_type_size_double_as_float(type) ==
    CASE type = DATA_TYPE_INT -> 1
      [] type = DATA_TYPE_FLOAT -> 4
      [] type = DATA_TYPE_DOUBLE -> 4
      [] OTHER -> 0

get_type_size(type) ==
    CASE type = DATA_TYPE_INT -> 1
      [] type = DATA_TYPE_FLOAT -> 4
      [] type = DATA_TYPE_DOUBLE -> 8
      [] OTHER -> 0

\* The SensorPacket structure. payload holds payload[0 .. payload_length-1];
\* the array elements at and above payload_length are read by no operation
\* before they are written again, and are not part of the state.
SensorPacket(slave_address, data_type, variable_count, payload, payload_length) ==
    [slave_address |-> slave_address, data_type |-> data_type,
     variable_count |-> variable_count, payload |-> payload,
     payload_length |-> payload_length]

\* union DataValue: bytes[] of a value stored through f32 or f64 are the
\* value's object representation, in the byte order of the host.
DataValue_bytes(value, order) ==
    IF order = "little" THEN Reverse(value) ELSE value

\* The store without the increment: packet->payload[packet->payload_length] = b
StoreByte_no_increment(pkt, b) ==
    [pkt EXCEPT
        !.payload = IF pkt.payload_length < Len(pkt.payload)
                    THEN [pkt.payload EXCEPT ![pkt.payload_length + 1] = b]
                    ELSE Append(SubSeq(pkt.payload, 1, pkt.payload_length), b)]

\* packet->payload[packet->payload_length++] = b
StoreByte(pkt, b) ==
    [pkt EXCEPT
        !.payload = IF pkt.payload_length < Len(pkt.payload)
                    THEN [pkt.payload EXCEPT ![pkt.payload_length + 1] = b]
                    ELSE Append(SubSeq(pkt.payload, 1, pkt.payload_length), b),
        !.payload_length = UINT16(pkt.payload_length + 1)]

\* for (uint8_t i = 0; i < type_size; i++) payload[payload_length++] = bytes[i]
RECURSIVE StoreBytes(_, _, _, _)
StoreBytes(pkt, bytes, i, type_size) ==
    IF i < type_size
    THEN StoreBytes(StoreByte(pkt, bytes[i + 1]), bytes, UINT8(i + 1), type_size)
    ELSE pkt

\* Each operation yields its return value and the packet as it leaves it.
Result(ret, pkt) == [ret |-> ret, packet |-> pkt]

\* packet_init without the rejection of var_count = 0.
packet_init_accepts_zero(p, slave_addr, type, var_count) ==
    IF p = NULL
    THEN Result(-1, p)
    ELSE Result(0, AddrOf([Deref(p) EXCEPT
                              !.slave_address = slave_addr,
                              !.data_type = type,
                              !.variable_count = var_count,
                              !.payload = <<>>,
                              !.payload_length = 0]))

\* packet_init that sets the header but does not reset the payload.
packet_init_keeps_payload(p, slave_addr, type, var_count) ==
    IF p = NULL \/ var_count = 0 \/ var_count > 255
    THEN Result(-1, p)
    ELSE Result(0, AddrOf([Deref(p) EXCEPT
                              !.slave_address = slave_addr,
                              !.data_type = type,
                              !.variable_count = var_count]))

\* payload_length = 0 leaves no array element live: the payload of the
\* model, which holds the live elements, is empty afterwards.
packet_init(p, slave_addr, type, var_count) ==
    IF p = NULL \/ var_count = 0 \/ var_count > 255
    THEN Result(-1, p)
    ELSE Result(0, AddrOf([Deref(p) EXCEPT
                              !.slave_address = slave_addr,
                              !.data_type = type,
                              !.variable_count = var_count,
                              !.payload = <<>>,
                              !.payload_length = 0]))

\* packet_add_int with the byte ceiling as its only capacity check.
packet_add_int_ceiling_only(p, value) ==
    IF p = NULL \/ Deref(p).data_type # DATA_TYPE_INT
    THEN Result(-1, p)
    ELSE LET pkt == Deref(p)
         IN  IF pkt.payload_length + 1 > 255 * get_type_size(DATA_TYPE_INT)
             THEN Result(-1, p)
             ELSE Result(0, AddrOf(StoreByte(pkt, value)))

\* packet_add_int whose ceiling check refuses one byte early.
packet_add_int_early_ceiling(p, value) ==
    IF p = NULL \/ Deref(p).data_type # DATA_TYPE_INT
    THEN Result(-1, p)
    ELSE LET pkt == Deref(p)
             current_count ==
                 UINT8(pkt.payload_length \div get_type_size(DATA_TYPE_INT))
         IN  IF current_count >= pkt.variable_count
             THEN Result(-1, p)
             ELSE IF pkt.payload_length + 1 >= 255 * get_type_size(DATA_TYPE_INT)
             THEN Result(-1, p)
             ELSE Result(0, AddrOf(StoreByte(pkt, value)))

packet_add_int(p, value) ==
    IF p = NULL \/ Deref(p).data_type # DATA_TYPE_INT
    THEN Result(-1, p)
    ELSE LET pkt == Deref(p)
             current_count ==
                 UINT8(pkt.payload_length \div get_type_size(DATA_TYPE_INT))
         IN  IF current_count >= pkt.variable_count
             THEN Result(-1, p)
             ELSE IF pkt.payload_length + 1 > 255 * get_type_size(DATA_TYPE_INT)
             THEN Result(-1, p)
             ELSE Result(0, AddrOf(StoreByte(pkt, value)))

\* packet_add_float without the check of the packet's data_type.
packet_add_float_any_type(p, value, order) ==
    IF p = NULL
    THEN Result(-1, p)
    ELSE LET pkt == Deref(p)
             type_size == get_type_size(DATA_TYPE_FLOAT)
             current_count == UINT8(pkt.payload_length \div type_size)
         IN  IF current_count >= pkt.variable_count
             THEN Result(-1, p)
             ELSE IF pkt.payload_length + type_size > 255 * type_size
             THEN Result(-1, p)
             ELSE Result(0, AddrOf(StoreBytes(pkt, DataValue_bytes(value, order),
                                              0, type_size)))

\* packet_add_float with an error value of its own for the exhausted count.
packet_add_float_capacity_code(p, value, order) ==
    IF p = NULL \/ Deref(p).data_type # DATA_TYPE_FLOAT
    THEN Result(-1, p)
    ELSE LET pkt == Deref(p)
             type_size == get_type_size(DATA_TYPE_FLOAT)
             current_count == UINT8(pkt.payload_length \div type_size)
         IN  IF current_count >= pkt.variable_count
             THEN Result(-2, p)
             ELSE IF pkt.payload_length + type_size > 255 * type_size
             THEN Result(-1, p)
             ELSE Result(0, AddrOf(StoreBytes(pkt, DataValue_bytes(value, order),
                                              0, type_size)))

packet_add_float(p, value, order) ==
    IF p = NULL \/ Deref(p).data_type # DATA_TYPE_FLOAT
    THEN Result(-1, p)
    ELSE LET pkt == Deref(p)
             type_size == get_type_size(DATA_TYPE_FLOAT)
             current_count == UINT8(pkt.payload_length \div type_size)
         IN  IF current_count >= pkt.variable_count
             THEN Result(-1, p)
             ELSE IF pkt.payload_length + type_size > 255 * type_size
             THEN Result(-1, p)
             ELSE Result(0, AddrOf(StoreBytes(pkt, DataValue_bytes(value, order),
                                              0, type_size)))

\* packet_add_double that writes the element before it checks the count.
packet_add_double_writes_first(p, value, order) ==
    IF p = NULL \/ Deref(p).data_type # DATA_TYPE_DOUBLE
    THEN Result(-1, p)
    ELSE LET pkt == Deref(p)
             type_size == get_type_size(DATA_TYPE_DOUBLE)
             current_count == UINT8(pkt.payload_length \div type_size)
             stored == StoreBytes(pkt, DataValue_bytes(value, order), 0, type_size)
         IN  IF current_count >= pkt.variable_count
             THEN Result(-1, AddrOf(stored))
             ELSE IF pkt.payload_length + type_size > 255 * type_size
             THEN Result(-1, p)
             ELSE Result(0, AddrOf(stored))

packet_add_double(p, value, order) ==
    IF p = NULL \/ Deref(p).data_type # DATA_TYPE_DOUBLE
    THEN Result(-1, p)
    ELSE LET pkt == Deref(p)
             type_size == get_type_size(DATA_TYPE_DOUBLE)
             current_count == UINT8(pkt.payload_length \div type_size)
         IN  IF current_count >= pkt.variable_count
             THEN Result(-1, p)
             ELSE IF pkt.payload_length + type_size > 255 * type_size
             THEN Result(-1, p)
             ELSE Result(0, AddrOf(StoreBytes(pkt, DataValue_bytes(value, order),
                                              0, type_size)))

\* packet_serialize yields its return value, the bytes written from
\* buffer[0] on, and the packet as it leaves it.
SerializeResult(ret, written, pkt) ==
    [ret |-> ret, written |-> written, packet |-> pkt]

\* packet_serialize with data_type and variable_count written in each
\* other's place.
packet_serialize_swapped_header(p, buf) ==
    IF p = NULL \/ buf = NULL
    THEN SerializeResult(-1, <<>>, p)
    ELSE LET pkt == Deref(p)
             expected_payload_size ==
                 UINT8(pkt.variable_count * get_type_size(pkt.data_type))
         IN  IF pkt.payload_length # expected_payload_size
             THEN SerializeResult(-1, <<>>, p)
             ELSE SerializeResult(INT16(3 + pkt.payload_length),
                                  <<pkt.slave_address, pkt.variable_count,
                                    pkt.data_type>>
                                  \o SubSeq(pkt.payload, 1, pkt.payload_length),
                                  p)

\* packet_serialize that empties the builder once its bytes are copied out.
packet_serialize_resets(p, buf) ==
    IF p = NULL \/ buf = NULL
    THEN SerializeResult(-1, <<>>, p)
    ELSE LET pkt == Deref(p)
             expected_payload_size ==
                 UINT8(pkt.variable_count * get_type_size(pkt.data_type))
         IN  IF pkt.payload_length # expected_payload_size
             THEN SerializeResult(-1, <<>>, p)
             ELSE SerializeResult(INT16(3 + pkt.payload_length),
                                  <<pkt.slave_address, pkt.data_type,
                                    pkt.variable_count>>
                                  \o SubSeq(pkt.payload, 1, pkt.payload_length),
                                  AddrOf([pkt EXCEPT !.payload = <<>>,
                                                     !.payload_length = 0]))

packet_serialize(p, buf) ==
    IF p = NULL \/ buf = NULL
    THEN SerializeResult(-1, <<>>, p)
    ELSE LET pkt == Deref(p)
             expected_payload_size ==
                 UINT8(pkt.variable_count * get_type_size(pkt.data_type))
         IN  IF pkt.payload_length # expected_payload_size
             THEN SerializeResult(-1, <<>>, p)
             ELSE SerializeResult(INT16(3 + pkt.payload_length),
                                  <<pkt.slave_address, pkt.data_type,
                                    pkt.variable_count>>
                                  \o SubSeq(pkt.payload, 1, pkt.payload_length),
                                  p)

-----------------------------------------------------------------------------
(* The caller: one SensorPacket, driven through the API *)

\* args: the slave_addr, type and var_count of a packet_init call.
Call(op, null, ret, args) ==
    [op |-> op, null |-> null, ret |-> ret, args |-> args]
NoArgs == <<>>

\* The pointer a caller passes for its packet: &packet or NULL.
PacketPtrs == {AddrOf(packet), NULL}

\* The packet object before its first packet_init. packet_init overwrites
\* every field that an operation reads, so its content does not matter.
BlankPacket == SensorPacket(0, 0, 0, <<>>, 0)

\* No frame has reached the decoder.
DecoderIdle ==
    /\ received = <<>>
    /\ decoded = <<>>

\* The two callers of a shared packet.
Callers == {1, 2}

\* A caller that is not inside an append. i is the loop counter of the
\* append, idx the payload_length it has read for its next store, ret the
\* value its last append returned, calls the number of its appends.
IdleCaller == [pc |-> "idle", i |-> 0, idx |-> 0, ret |-> 0, calls |-> 0]

\* No packet is shared.
SharedIdle ==
    /\ callers = [c \in Callers |-> IdleCaller]
    /\ overlapped = FALSE

\* The Packet structure of the sketch; payload is the whole array
\* payload[0..63], as the sequence of its 64 elements.
Packet(slave_address, data_type, payload_length, payload) ==
    [slave_address |-> slave_address, data_type |-> data_type,
     payload_length |-> payload_length, payload |-> payload]

\* A Packet in static storage before its first use.
BlankRxPacket == Packet(0, 0, 0, [k \in 1..MAX_PAYLOAD_SIZE |-> 0])

\* receive_packet before its first call.
RxIdle ==
    [pc |-> "idle", bytes_read |-> 0, ret |-> "none", taken |-> <<>>,
     oob |-> FALSE]

\* The sketch receives nothing.
ArduinoIdle ==
    /\ incoming = <<>>
    /\ serial_rx = <<>>
    /\ received_packet = BlankRxPacket
    /\ rx = RxIdle

\* The sending side of the sketch before setup(): current_packet is in
\* static storage and nothing is on the line.
SketchIdle == [op |-> "none", args |-> <<>>, calls |-> 0, from |-> 0]

SenderIdle ==
    /\ current_packet = BlankRxPacket
    /\ serial_tx = <<>>
    /\ sketch = SketchIdle

\* The state after the caller's first successful packet_init.
Init ==
    /\ host_order \in {"little", "big"}
    /\ \E c \in InitCalls :
          LET r == packet_init(AddrOf(BlankPacket), c[2], c[3][1], c[3][2])
          IN  /\ ~c[1]
              /\ r.ret = 0
              /\ packet = Deref(r.packet)
              /\ call = Call("packet_init", FALSE, 0, <<c[2], c[3][1], c[3][2]>>)
    /\ buffer = <<>>
    /\ appended = <<>>
    /\ DecoderIdle
    /\ SharedIdle
    /\ ArduinoIdle
    /\ SenderIdle

PacketInit ==
    \E c \in InitCalls :
        LET p == IF c[1] THEN NULL ELSE AddrOf(packet)
            slave_addr == c[2]
            type == c[3][1]
            var_count == c[3][2]
            r == packet_init(p, slave_addr, type, var_count)
        IN  /\ packet' = IF p = NULL THEN packet ELSE Deref(r.packet)
            /\ call' = Call("packet_init", p = NULL, r.ret,
                            <<slave_addr, type, var_count>>)
            /\ buffer' = <<>>
            /\ appended' = IF r.ret = 0 THEN <<>> ELSE appended
            /\ UNCHANGED <<host_order, outside_builder>>

PacketAddInt ==
    \E p \in PacketPtrs, value \in InputsAt(IntSamples, Len(appended)) :
        LET r == packet_add_int(p, value)
        IN  /\ packet' = IF p = NULL THEN packet ELSE Deref(r.packet)
            /\ call' = Call("packet_add_int", p = NULL, r.ret, NoArgs)
            /\ buffer' = <<>>
            /\ appended' = IF r.ret = 0 THEN Append(appended, <<value>>)
                           ELSE appended
            /\ UNCHANGED <<host_order, outside_builder>>

PacketAddFloat ==
    \E p \in PacketPtrs, value \in InputsAt(FloatSamples, Len(appended)) :
        LET r == packet_add_float(p, value, host_order)
        IN  /\ packet' = IF p = NULL THEN packet ELSE Deref(r.packet)
            /\ call' = Call("packet_add_float", p = NULL, r.ret, NoArgs)
            /\ buffer' = <<>>
            /\ appended' = IF r.ret = 0 THEN Append(appended, value)
                           ELSE appended
            /\ UNCHANGED <<host_order, outside_builder>>

PacketAddDouble ==
    \E p \in PacketPtrs, value \in InputsAt(DoubleSamples, Len(appended)) :
        LET r == packet_add_double(p, value, host_order)
        IN  /\ packet' = IF p = NULL THEN packet ELSE Deref(r.packet)
            /\ call' = Call("packet_add_double", p = NULL, r.ret, NoArgs)
            /\ buffer' = <<>>
            /\ appended' = IF r.ret = 0 THEN Append(appended, value)
                           ELSE appended
            /\ UNCHANGED <<host_order, outside_builder>>

PacketSerialize ==
    \E p \in PacketPtrs, buf \in {AddrOf(buffer), NULL} :
        LET r == packet_serialize(p, buf)
        IN  /\ call' = Call("packet_serialize", p = NULL \/ buf = NULL, r.ret,
                            NoArgs)
            /\ packet' = IF p = NULL THEN packet ELSE Deref(r.packet)
            /\ buffer' = r.written
            /\ UNCHANGED <<host_order, appended, outside_builder>>

Next ==
    \/ PacketInit
    \/ PacketAddInt
    \/ PacketAddFloat
    \/ PacketAddDouble
    \/ PacketSerialize

Spec == Init /\ [][Next]_vars

-----------------------------------------------------------------------------
(* The decoder of the wire format (PC side) *)

\* Type Registry: the byte width of a type code, 0 for a code with no width.
width(type_code) ==
    CASE type_code = 1 -> 1
      [] type_code = 2 -> 4
      [] type_code = 3 -> 8
      [] OTHER -> 0

Decoded(slave_address, data_type, variable_count, values) ==
    [error |-> "none", slave_address |-> slave_address, data_type |-> data_type,
     variable_count |-> variable_count, values |-> values]

DecodeError(error) ==
    [error |-> error, slave_address |-> 0, data_type |-> 0,
     variable_count |-> 0, values |-> <<>>]

\* One chunk of width bytes, least significant byte first, as a value.
DecodeChunk(chunk) == Reverse(chunk)

\* decode that takes the declared elements and ignores what follows them.
decode_ignores_excess(bytes) ==
    IF Len(bytes) < 3 THEN DecodeError("TooShort")
    ELSE LET slave_address == bytes[1]
             data_type_code == bytes[2]
             variable_count == bytes[3]
             w == width(data_type_code)
         IN  IF w = 0 THEN DecodeError("UnknownType")
             ELSE IF Len(bytes) - 3 < variable_count * w
             THEN DecodeError("TruncatedOrOversizedPayload")
             ELSE Decoded(slave_address, data_type_code, variable_count,
                          [k \in 1..variable_count |->
                              DecodeChunk(SubSeq(bytes, 3 + (k - 1) * w + 1,
                                                 3 + k * w))])

\* decode with a type registry that gives a code without a width one byte.
decode_unknown_as_byte(bytes) ==
    IF Len(bytes) < 3 THEN DecodeError("TooShort")
    ELSE LET slave_address == bytes[1]
             data_type_code == bytes[2]
             variable_count == bytes[3]
             w == IF width(data_type_code) = 0 THEN 1 ELSE width(data_type_code)
         IN  IF Len(bytes) - 3 # variable_count * w
             THEN DecodeError("TruncatedOrOversizedPayload")
             ELSE Decoded(slave_address, data_type_code, variable_count,
                          [k \in 1..variable_count |->
                              DecodeChunk(SubSeq(bytes, 3 + (k - 1) * w + 1,
                                                 3 + k * w))])

decode(bytes) ==
    IF Len(bytes) < 3 THEN DecodeError("TooShort")
    ELSE LET slave_address == bytes[1]
             data_type_code == bytes[2]
             variable_count == bytes[3]
             w == width(data_type_code)
         IN  IF w = 0 THEN DecodeError("UnknownType")
             ELSE IF Len(bytes) - 3 # variable_count * w
             THEN DecodeError("TruncatedOrOversizedPayload")
             ELSE Decoded(slave_address, data_type_code, variable_count,
                          [k \in 1..variable_count |->
                              DecodeChunk(SubSeq(bytes, 3 + (k - 1) * w + 1,
                                                 3 + k * w))])

-----------------------------------------------------------------------------
(* The receiving side: a frame arrives byte by byte and is decoded *)

\* The longest frame handed to the decoder.
MaxReceived == 12

\* The bytes that may stand at the 0-based position pos of a frame: two
\* slave addresses; the three type codes and codes outside the enumeration;
\* counts 0 to 3; payload bytes that tell their position, the first
\* MaxVaried of them with the alternative 0.
FrameBytesAt(pos) ==
    CASE pos = 0 -> {1, 5}
      [] pos = 1 -> {0, DATA_TYPE_INT, DATA_TYPE_FLOAT, DATA_TYPE_DOUBLE, 9, 255}
      [] pos = 2 -> {0, 1, 2, 3}
      [] OTHER -> IF pos - 3 < MaxVaried THEN {0, 16 + pos} ELSE {16 + pos}

\* No packet builder is in use.
BuilderIdle ==
    /\ packet = BlankPacket
    /\ host_order = "little"
    /\ call = Call("none", FALSE, 0, NoArgs)
    /\ buffer = <<>>
    /\ appended = <<>>

InitDecode ==
    /\ BuilderIdle
    /\ DecoderIdle
    /\ SharedIdle
    /\ ArduinoIdle
    /\ SenderIdle

\* One more byte of the frame arrives.
ReceiveByte ==
    /\ Len(received) < MaxReceived
    /\ \E b \in FrameBytesAt(Len(received)) :
          received' = Append(received, b)
    /\ decoded' = <<>>
    /\ UNCHANGED outside_decoder

\* The bytes received so far are handed to the decoder as one frame.
Decode ==
    /\ decoded' = <<decode(received)>>
    /\ UNCHANGED <<received, outside_decoder>>

NextDecode ==
    \/ ReceiveByte
    \/ Decode

SpecDecode == InitDecode /\ [][NextDecode]_vars

-----------------------------------------------------------------------------
(* A caller of get_type_size *)

\* The type codes a caller may ask about: every value of a header byte.
TypeCodes == 0..255

InitTypeSize ==
    /\ BuilderIdle
    /\ DecoderIdle
    /\ SharedIdle
    /\ ArduinoIdle
    /\ SenderIdle

GetTypeSize ==
    /\ \E type \in TypeCodes :
          call' = Call("get_type_size", FALSE, get_type_size(type), <<type>>)
    /\ UNCHANGED <<packet, host_order, buffer, appended, outside_builder>>

NextTypeSize == GetTypeSize

SpecTypeSize == InitTypeSize /\ [][NextTypeSize]_vars

-----------------------------------------------------------------------------
(* Two callers append to one packet without synchronisation *)

\* The number of appends each caller makes.
MaxSharedCalls == 1

\* The value that caller c appends to a packet of the given type.
SharedValue(c, type) ==
    IF type = DATA_TYPE_FLOAT THEN FloatSamples[c] ELSE DoubleSamples[c]

\* The checks of an append without the check of the element count.
AppendAdmitted_no_count(pkt, type) ==
    /\ pkt.data_type = type
    /\ pkt.payload_length + get_type_size(type) <= 255 * get_type_size(type)

\* The checks an append of the given type makes before its first store:
\* the packet's type, the element count, the byte ceiling.
AppendAdmitted(pkt, type) ==
    /\ pkt.data_type = type
    /\ UINT8(pkt.payload_length \div get_type_size(type)) < pkt.variable_count
    /\ pkt.payload_length + get_type_size(type) <= 255 * get_type_size(type)

\* packet->payload[packet->payload_length++] = b, for a caller that has read
\* payload_length as idx. Here payload holds every byte stored so far, since
\* a store of the other caller may leave payload_length below it.
StoreAt(pkt, idx, b) ==
    [pkt EXCEPT
        !.payload = IF idx < Len(pkt.payload)
                    THEN [pkt.payload EXCEPT ![idx + 1] = b]
                    ELSE Append(pkt.payload, b),
        !.payload_length = UINT16(idx + 1)]

\* A packet of floats, initialised for one or two elements, that both
\* callers hold a pointer to. packet_add_double has the steps of
\* packet_add_float with 8 stores in the place of 4.
InitShared ==
    /\ host_order = "little"
    /\ \E type \in {DATA_TYPE_FLOAT}, var_count \in {1, 2} :
          /\ packet = Deref(packet_init(AddrOf(BlankPacket), 1, type,
                                        var_count).packet)
          /\ call = Call("packet_init", FALSE, 0, <<1, type, var_count>>)
    /\ buffer = <<>>
    /\ appended = <<>>
    /\ DecoderIdle
    /\ SharedIdle
    /\ ArduinoIdle
    /\ SenderIdle

\* Caller c enters the append of the packet's type and makes its checks.
AppendBegin(c) ==
    /\ callers[c].pc = "idle"
    /\ callers[c].calls < MaxSharedCalls
    /\ LET admitted == AppendAdmitted(packet, packet.data_type)
       IN  callers' = [callers EXCEPT ![c] =
                          [pc |-> IF admitted THEN "load" ELSE "idle",
                           i |-> 0,
                           idx |-> 0,
                           ret |-> IF admitted THEN 0 ELSE -1,
                           calls |-> @.calls + 1]]
    /\ overlapped' = (overlapped
                        \/ \E o \in Callers \ {c} : callers[o].pc # "idle")
    /\ UNCHANGED <<builder_vars, outside_shared>>

\* Caller c reads payload_length for the store of its byte i.
AppendLoad(c) ==
    /\ callers[c].pc = "load"
    /\ callers' = [callers EXCEPT ![c].pc = "store",
                                  ![c].idx = packet.payload_length]
    /\ UNCHANGED <<builder_vars, outside_shared, overlapped>>

\* Caller c stores its byte i and the incremented payload_length, and
\* returns 0 after the last byte.
AppendStore(c) ==
    /\ callers[c].pc = "store"
    /\ LET type_size == get_type_size(packet.data_type)
           bytes == DataValue_bytes(SharedValue(c, packet.data_type),
                                    host_order)
           i == callers[c].i
       IN  /\ packet' = StoreAt(packet, callers[c].idx, bytes[i + 1])
           /\ callers' = [callers EXCEPT
                             ![c].i = UINT8(i + 1),
                             ![c].pc = IF UINT8(i + 1) < type_size
                                       THEN "load" ELSE "idle"]
    /\ UNCHANGED <<host_order, call, buffer, appended, outside_shared,
                   overlapped>>

NextShared ==
    \/ \E c \in Callers : AppendBegin(c)
    \/ \E c \in Callers : AppendLoad(c)
    \/ \E c \in Callers : AppendStore(c)

SpecShared == InitShared /\ [][NextShared]_vars

-----------------------------------------------------------------------------
(* packetizer.ino: receive_packet *)

\* n payload bytes that tell their position: 100, 101, ...
RxPayload(n) == [k \in 1..n |-> 99 + k]

\* What the peer sends: a packet of two payload bytes and then a packet
\* without payload; a packet of 64 payload bytes; a header that announces 65
\* bytes, with them; two bytes; a packet cut short after its first payload
\* byte; a header that announces 255 bytes, with two of them.
RxStreams ==
    { <<1, 2, 2>> \o RxPayload(2) \o <<5, 255, 0>>,
      <<1, 2, MAX_PAYLOAD_SIZE>> \o RxPayload(MAX_PAYLOAD_SIZE),
      <<1, 2, MAX_PAYLOAD_SIZE + 1>> \o RxPayload(MAX_PAYLOAD_SIZE + 1),
      <<7, 1>>,
      <<1, 2, 2>> \o RxPayload(1),
      <<1, 4, 255>> \o RxPayload(2) }

\* receive_packet up to its payload loop, without the check of
\* payload_length against MAX_PAYLOAD_SIZE.
receive_packet_header_unchecked(pkt, available) ==
    IF Len(available) < 3
    THEN [ret |-> "false", packet |-> pkt, taken |-> <<>>]
    ELSE [ret |-> "reading",
          packet |-> [pkt EXCEPT !.slave_address = available[1],
                                 !.data_type = available[2],
                                 !.payload_length = available[3]],
          taken |-> SubSeq(available, 1, 3)]

\* receive_packet up to its payload loop, for the Packet pkt and the bytes
\* available in the serial receive buffer. Yields "false" where the function
\* returns false and "reading" where it enters the loop, the Packet as it
\* is then, and the bytes taken from Serial.
receive_packet_header(pkt, available) ==
    IF Len(available) < 3
    THEN [ret |-> "false", packet |-> pkt, taken |-> <<>>]
    ELSE LET header == [pkt EXCEPT !.slave_address = available[1],
                                   !.data_type = available[2],
                                   !.payload_length = available[3]]
         IN  [ret |-> IF header.payload_length > MAX_PAYLOAD_SIZE
                      THEN "false" ELSE "reading",
              packet |-> header,
              taken |-> SubSeq(available, 1, 3)]

InitReceive ==
    /\ BuilderIdle
    /\ DecoderIdle
    /\ SharedIdle
    /\ incoming \in RxStreams
    /\ serial_rx = <<>>
    /\ received_packet = BlankRxPacket
    /\ rx = RxIdle
    /\ SenderIdle

\* The next byte of the peer reaches the serial receive buffer.
ByteArrives ==
    /\ incoming # <<>>
    /\ serial_rx' = Append(serial_rx, Head(incoming))
    /\ incoming' = Tail(incoming)
    /\ UNCHANGED <<received_packet, rx, outside_arduino>>

\* receive_packet is called, and runs until it returns false or enters its
\* payload loop.
ReceivePacketCall ==
    /\ rx.pc = "idle"
    /\ LET r == receive_packet_header(received_packet, serial_rx)
       IN  /\ received_packet' = r.packet
           /\ serial_rx' = SubSeq(serial_rx, Len(r.taken) + 1, Len(serial_rx))
           /\ rx' = [pc |-> IF r.ret = "reading" THEN "payload" ELSE "idle",
                     bytes_read |-> 0,
                     ret |-> IF r.ret = "reading" THEN "none" ELSE r.ret,
                     taken |-> r.taken,
                     oob |-> rx.oob]
    /\ UNCHANGED <<incoming, outside_arduino>>

\* The turn of the payload loop without bytes_read++.
ReceivePacketRead_no_increment ==
    /\ rx.pc = "payload"
    /\ rx.bytes_read < received_packet.payload_length
    /\ serial_rx # <<>>
    /\ received_packet' =
          IF rx.bytes_read < MAX_PAYLOAD_SIZE
          THEN [received_packet EXCEPT
                   !.payload[rx.bytes_read + 1] = Head(serial_rx)]
          ELSE received_packet
    /\ rx' = [rx EXCEPT !.taken = Append(@, Head(serial_rx)),
                        !.oob = (@ \/ rx.bytes_read >= MAX_PAYLOAD_SIZE)]
    /\ serial_rx' = Tail(serial_rx)
    /\ UNCHANGED <<incoming, outside_arduino>>

\* One turn of the payload loop with a byte available:
\* received_packet->payload[bytes_read] = Serial.read(); bytes_read++.
\* A store above payload[63] is outside the array; the model notes it in oob
\* and leaves the Packet as it is.
ReceivePacketRead ==
    /\ rx.pc = "payload"
    /\ rx.bytes_read < received_packet.payload_length
    /\ serial_rx # <<>>
    /\ received_packet' =
          IF rx.bytes_read < MAX_PAYLOAD_SIZE
          THEN [received_packet EXCEPT
                   !.payload[rx.bytes_read + 1] = Head(serial_rx)]
          ELSE received_packet
    /\ rx' = [rx EXCEPT !.bytes_read = UINT8(@ + 1),
                        !.taken = Append(@, Head(serial_rx)),
                        !.oob = (@ \/ rx.bytes_read >= MAX_PAYLOAD_SIZE)]
    /\ serial_rx' = Tail(serial_rx)
    /\ UNCHANGED <<incoming, outside_arduino>>

\* The payload loop ends and receive_packet returns true.
ReceivePacketReturn ==
    /\ rx.pc = "payload"
    /\ ~(rx.bytes_read < received_packet.payload_length)
    /\ rx' = [rx EXCEPT !.pc = "idle", !.ret = "true"]
    /\ UNCHANGED <<incoming, serial_rx, received_packet, outside_arduino>>

NextReceive ==
    \/ ByteArrives
    \/ ReceivePacketCall
    \/ ReceivePacketRead
    \/ ReceivePacketReturn

SpecReceive == InitReceive /\ [][NextReceive]_vars

\* receive_packet on a processor that keeps running its loop, with a serial
\* line on which every byte the peer has sent arrives in the end. The
\* peer itself may stop at any byte: RxStreams has a packet cut short.
SpecReceiveFair ==
    /\ SpecReceive
    /\ WF_vars(ByteArrives)
    /\ WF_vars(ReceivePacketRead)
    /\ WF_vars(ReceivePacketReturn)

-----------------------------------------------------------------------------
(* packetizer.ino: the sending side *)

DATA_TYPE_TEMPERATURE == 1
DATA_TYPE_HUMIDITY == 2
DATA_TYPE_GENERIC == 255

\* The number of calls the sketch makes to its sending side.
MaxSketchCalls == 4

\* The texts of the sketch, as the ASCII codes that Serial.print sends.
\* "Packet initialized: Slave=0x"
TextPacketInitialized ==
    <<80, 97, 99, 107, 101, 116, 32, 105, 110, 105, 116, 105, 97, 108, 105,
      122, 101, 100, 58, 32, 83, 108, 97, 118, 101, 61, 48, 120>>

\* " DataType=0x"
TextDataType ==
    <<32, 68, 97, 116, 97, 84, 121, 112, 101, 61, 48, 120>>

\* "ERROR: Data length exceeds maximum payload size!"
TextLengthError ==
    <<69, 82, 82, 79, 82, 58, 32, 68, 97, 116, 97, 32, 108, 101, 110, 103,
      116, 104, 32, 101, 120, 99, 101, 101, 100, 115, 32, 109, 97, 120,
      105, 109, 117, 109, 32, 112, 97, 121, 108, 111, 97, 100, 32, 115,
      105, 122, 101, 33>>

\* "Packet created: Length="
TextPacketCreated ==
    <<80, 97, 99, 107, 101, 116, 32, 99, 114, 101, 97, 116, 101, 100, 58,
      32, 76, 101, 110, 103, 116, 104, 61>>

\* "[DEBUG] Packet sent: "
TextPacketSent ==
    <<91, 68, 69, 66, 85, 71, 93, 32, 80, 97, 99, 107, 101, 116, 32, 115,
      101, 110, 116, 58, 32>>

\* " | Payload: "
TextPayload ==
    <<32, 124, 32, 80, 97, 121, 108, 111, 97, 100, 58, 32>>

\* "0x"
Text0x == <<48, 120>>

\* println ends its line with a carriage return and a line feed.
CRLF == <<13, 10>>

\* Serial.print(n, HEX) for a uint8_t: the digits 0-9 and A-F, without
\* leading zeros.
HexDigit(d) == IF d < 10 THEN 48 + d ELSE 55 + d
PrintHEX(n) ==
    IF n < 16 THEN <<HexDigit(n)>>
    ELSE <<HexDigit(n \div 16), HexDigit(n % 16)>>

\* Serial.print(n) for a uint8_t: the decimal digits.
PrintDEC(n) ==
    IF n < 10 THEN <<48 + n>>
    ELSE IF n < 100 THEN <<48 + (n \div 10), 48 + (n % 10)>>
    ELSE <<48 + (n \div 100), 48 + ((n \div 10) % 10), 48 + (n % 10)>>

\* Bytes on the line, sent by Serial.write or by Serial.print.
Written(bytes) == [k \in 1..Len(bytes) |-> [byte |-> bytes[k], by |-> "write"]]
Printed(bytes) == [k \in 1..Len(bytes) |-> [byte |-> bytes[k], by |-> "print"]]

\* Each function of the sending side yields current_packet as it leaves it
\* and the bytes it puts on the serial line.
SketchResult(pkt, tx) == [packet |-> pkt, tx |-> tx]

\* packet_init of the sketch.
sketch_packet_init(pkt, slave_addr, data_type) ==
    SketchResult([pkt EXCEPT !.slave_address = slave_addr,
                             !.data_type = data_type,
                             !.payload_length = 0],
                 Printed(TextPacketInitialized \o PrintHEX(slave_addr)
                         \o TextDataType \o PrintHEX(data_type) \o CRLF))

\* packetize_data without the check of data_length; what the copy would
\* store above payload[63] is left out.
packetize_data_unchecked(pkt, data_stream, data_length) ==
    SketchResult([pkt EXCEPT
                     !.payload = [k \in 1..MAX_PAYLOAD_SIZE |->
                                     IF k <= data_length
                                     THEN data_stream[k] ELSE @[k]],
                     !.payload_length = data_length],
                 Printed(TextPacketCreated \o PrintDEC(data_length) \o CRLF))

packetize_data(pkt, data_stream, data_length) ==
    IF data_length > MAX_PAYLOAD_SIZE
    THEN SketchResult([pkt EXCEPT !.payload_length = 0],
                      Printed(TextLengthError \o CRLF))
    ELSE SketchResult([pkt EXCEPT
                          !.payload = [k \in 1..MAX_PAYLOAD_SIZE |->
                                          IF k <= data_length
                                          THEN data_stream[k] ELSE @[k]],
                          !.payload_length = data_length],
                      Printed(TextPacketCreated \o PrintDEC(data_length)
                              \o CRLF))

\* The loop of print_packet_debug from payload[i] on.
RECURSIVE PrintPayload(_, _)
PrintPayload(pkt, i) ==
    IF i < pkt.payload_length
    THEN Text0x \o PrintHEX(pkt.payload[i + 1])
         \o (IF i < pkt.payload_length - 1 THEN <<32>> ELSE <<>>)
         \o PrintPayload(pkt, UINT8(i + 1))
    ELSE <<>>

print_packet_debug(pkt) ==
    Printed(TextPacketSent
            \o Text0x \o PrintHEX(pkt.slave_address)
            \o <<32>> \o Text0x \o PrintHEX(pkt.data_type)
            \o <<32>> \o Text0x \o PrintHEX(pkt.payload_length)
            \o TextPayload \o PrintPayload(pkt, 0) \o CRLF)

\* output_packet with the data type sent after the payload length.
output_packet_length_first(pkt) ==
    SketchResult(pkt,
                 Written(<<pkt.slave_address, pkt.payload_length,
                           pkt.data_type>>
                         \o SubSeq(pkt.payload, 1, pkt.payload_length))
                 \o print_packet_debug(pkt))

output_packet(pkt) ==
    SketchResult(pkt,
                 Written(<<pkt.slave_address, pkt.data_type,
                           pkt.payload_length>>
                         \o SubSeq(pkt.payload, 1, pkt.payload_length))
                 \o print_packet_debug(pkt))

\* The packet_init calls of the sketch: setup() passes 0x01 and
\* DATA_TYPE_GENERIC.
SketchInits ==
    {<<1, DATA_TYPE_GENERIC>>, <<1, DATA_TYPE_TEMPERATURE>>,
     <<5, DATA_TYPE_HUMIDITY>>}

\* The data that packetize_data is called with, data_length being the
\* length: the payload of loop(), no data, 64 bytes and 65 bytes.
DataStreams ==
    {<<170, 187, 204, 221>>, <<>>, RxPayload(MAX_PAYLOAD_SIZE),
     RxPayload(MAX_PAYLOAD_SIZE + 1)}

SketchCall(op, args) ==
    [op |-> op, args |-> args, calls |-> sketch.calls + 1,
     from |-> Len(serial_tx)]

InitSketch ==
    /\ BuilderIdle
    /\ DecoderIdle
    /\ SharedIdle
    /\ ArduinoIdle
    /\ SenderIdle

SketchPacketInit ==
    /\ sketch.calls < MaxSketchCalls
    /\ \E a \in SketchInits :
          LET r == sketch_packet_init(current_packet, a[1], a[2])
          IN  /\ current_packet' = r.packet
              /\ serial_tx' = serial_tx \o r.tx
              /\ sketch' = SketchCall("packet_init", a)
    /\ UNCHANGED outside_sender

\* setup() has run, and with it packet_init, before loop() makes the first
\* packetize_data and output_packet calls.
PacketizeData ==
    /\ sketch.op # "none"
    /\ sketch.calls < MaxSketchCalls
    /\ \E data_stream \in DataStreams :
          LET data_length == Len(data_stream)
              r == packetize_data(current_packet, data_stream, data_length)
          IN  /\ current_packet' = r.packet
              /\ serial_tx' = serial_tx \o r.tx
              /\ sketch' = SketchCall("packetize_data",
                                      <<data_stream, data_length>>)
    /\ UNCHANGED outside_sender

OutputPacket ==
    /\ sketch.op # "none"
    /\ sketch.calls < MaxSketchCalls
    /\ LET r == output_packet(current_packet)
       IN  /\ current_packet' = r.packet
           /\ serial_tx' = serial_tx \o r.tx
           /\ sketch' = SketchCall("output_packet", <<>>)
    /\ UNCHANGED outside_sender

NextSketch ==
    \/ SketchPacketInit
    \/ PacketizeData
    \/ OutputPacket

SpecSketch == InitSketch /\ [][NextSketch]_vars

-----------------------------------------------------------------------------
(* Derived quantities *)

AddOps == {"packet_add_int", "packet_add_float", "packet_add_double"}
KnownTypes == {DATA_TYPE_INT, DATA_TYPE_FLOAT, DATA_TYPE_DOUBLE}

\* The append operation of a type.
AddOpOf(type) ==
    CASE type = DATA_TYPE_INT -> "packet_add_int"
      [] type = DATA_TYPE_FLOAT -> "packet_add_float"
      [] type = DATA_TYPE_DOUBLE -> "packet_add_double"
      [] OTHER -> "none"

\* variable_count x width(data_type) as a true integer, 0..2040.
DeclaredPayloadSize(pkt) == pkt.variable_count * get_type_size(pkt.data_type)

\* The last call was packet_serialize with valid pointers.
Serialized == call.op = "packet_serialize" /\ ~call.null

\* The builder holds as many elements as it declares.
FullyPopulated ==
    /\ packet.data_type \in KnownTypes
    /\ Len(appended) = packet.variable_count

-----------------------------------------------------------------------------
(* Claims *)

\* C1: packet_serialize succeeds only when payload_length equals exactly
\* variable_count x width(data_type), the product taken as a true integer:
\* a builder with fewer appended elements than declared is refused, and no
\* packet is emitted whose payload is shorter than variable_count x width.
C1_SerializeOnlyWhenFull ==
    (call.op = "packet_serialize" /\ call.ret # -1) =>
        /\ packet.payload_length = DeclaredPayloadSize(packet)
        /\ Len(buffer) - 3 = DeclaredPayloadSize(packet)
        /\ packet.data_type \in KnownTypes =>
              Len(appended) = packet.variable_count

\* C2: a builder of a known type that was initialised with variable_count n
\* and then received exactly n successful appends is serializable:
\* packet_serialize returns 3 + n x width(type), never -1.
C2_FullBuilderSerializes ==
    (Serialized /\ FullyPopulated) =>
        call.ret = 3 + DeclaredPayloadSize(packet)

\* C3: round trip. Building a packet (packet_init, one append per value),
\* serializing it and decoding the bytes reproduces slave_address, data_type
\* and the values, in order. Stated for a little-endian host, where the
\* union's byte order is the byte order of the wire format.
C3_RoundTrip ==
    (Serialized /\ FullyPopulated /\ host_order = "little") =>
        /\ call.ret # -1
        /\ decode(buffer) = Decoded(packet.slave_address, packet.data_type,
                                    packet.variable_count, appended)

\* filled_elements: payload_length / width(data_type).
FilledElements(pkt) ==
    IF get_type_size(pkt.data_type) = 0 THEN 0
    ELSE pkt.payload_length \div get_type_size(pkt.data_type)

\* C4: capacity. After packet_init with variable_count = n at most n appends
\* succeed; every later append fails although the payload buffer has room:
\* the number of elements appended since packet_init, and filled_elements,
\* never exceed variable_count, and an append on a packet that already holds
\* variable_count elements returns -1.
C4_Capacity ==
    /\ Len(appended) <= packet.variable_count
    /\ FilledElements(packet) <= packet.variable_count
    /\ FilledElements(packet) = Len(appended)
    /\ (call.op \in AddOps /\ call.ret = 0) => Len(appended) >= 1
    /\ packet.payload_length <= PAYLOAD_CAPACITY

\* The fourth append on a packet of three ints is refused with 2037 bytes
\* of the payload buffer unused.
C4_Witness ==
    /\ call = Call("packet_add_int", FALSE, -1, NoArgs)
    /\ packet.data_type = DATA_TYPE_INT
    /\ packet.variable_count = 3
    /\ Len(appended) = 3
    /\ packet.payload_length + 1 <= PAYLOAD_CAPACITY

\* C5: type isolation. An append operation whose type differs from the
\* packet's data_type fails, whatever the fill level of the packet.
C5_TypeIsolation ==
    (call.op \in AddOps /\ call.op # AddOpOf(packet.data_type)) =>
        call.ret = -1

\* packet_add_float was refused on a partly filled packet of ints.
C5_Witness ==
    /\ call = Call("packet_add_float", FALSE, -1, NoArgs)
    /\ packet.data_type = DATA_TYPE_INT
    /\ Len(appended) = 2
    /\ packet.variable_count = 3

\* C6: in every state reachable from a successful packet_init,
\* 0 < variable_count <= 255, payload_length <= 255 x width(data_type), and
\* payload_length is an exact multiple of width(data_type).
C6_Invariants ==
    /\ 0 < packet.variable_count
    /\ packet.variable_count <= 255
    /\ packet.payload_length <= 255 * get_type_size(packet.data_type)
    /\ \E k \in 0..255 :
          packet.payload_length = k * get_type_size(packet.data_type)
    /\ Len(packet.payload) = packet.payload_length

\* A packet of 255 ints holds 255 bytes, the ceiling of its type.
C6_Witness ==
    /\ packet.data_type = DATA_TYPE_INT
    /\ packet.variable_count = 255
    /\ packet.payload_length = 255 * get_type_size(DATA_TYPE_INT)
    /\ call.op = "packet_serialize"

\* C7: when packet_serialize succeeds the output holds slave_address at
\* offset 0, the type code at offset 1, variable_count at offset 2 and from
\* offset 3 the payload bytes in append order, 3 + payload_length bytes in
\* all; init(slave 1, INT, count 3) with appends 25, 60, 99 serializes to
\* 01 01 03 19 3C 63.
C7_Layout ==
    /\ (call.op = "packet_serialize" /\ call.ret # -1) =>
          /\ Len(buffer) = 3 + packet.payload_length
          /\ call.ret = Len(buffer)
          /\ buffer[1] = packet.slave_address
          /\ buffer[2] = packet.data_type
          /\ buffer[3] = packet.variable_count
          /\ \A i \in 1..packet.payload_length :
                buffer[3 + i] = packet.payload[i]
    /\ (/\ Serialized
        /\ packet.slave_address = 1
        /\ packet.data_type = DATA_TYPE_INT
        /\ packet.variable_count = 3
        /\ appended = << <<25>>, <<60>>, <<99>> >>) =>
          /\ call.ret = 6
          /\ buffer = <<1, 1, 3, 25, 60, 99>>

C7_Witness ==
    /\ Serialized
    /\ appended = << <<25>>, <<60>>, <<99>> >>
    /\ buffer = <<1, 1, 3, 25, 60, 99>>

\* C8: a failed append commits nothing. slave_address, data_type,
\* variable_count, payload_length and every payload byte are as before the
\* call.
C8_FailedAppendCommitsNothing ==
    [][(call'.op \in AddOps /\ call'.ret = -1) =>
          (packet' = packet /\ appended' = appended)]_vars

\* An append was refused on a packet of 32 doubles that holds all 32.
C8_Witness ==
    /\ call = Call("packet_add_double", FALSE, -1, NoArgs)
    /\ packet.data_type = DATA_TYPE_DOUBLE
    /\ packet.variable_count = 32
    /\ packet.payload_length = 256

\* C9: a successful append increases filled_elements by exactly one.
\* payload_length grows by width(data_type), the bytes of the new element
\* follow the bytes already there, which are unchanged, and the three header
\* fields are unchanged.
C9_AppendOnly ==
    [][(call'.op \in AddOps /\ call'.ret = 0) =>
          LET w == get_type_size(packet.data_type)
              new == SubSeq(packet'.payload, packet.payload_length + 1,
                            packet.payload_length + w)
              value == appended'[Len(appended')]
          IN  /\ call'.op = AddOpOf(packet.data_type)
              /\ packet'.payload_length = packet.payload_length + w
              /\ Len(packet'.payload) = Len(packet.payload) + w
              /\ FilledElements(packet') = FilledElements(packet) + 1
              /\ SubSeq(packet'.payload, 1, packet.payload_length)
                    = packet.payload
              /\ appended' = Append(appended, value)
              /\ Len(value) = w
              /\ new \in {value, Reverse(value)}
              /\ packet'.slave_address = packet.slave_address
              /\ packet'.data_type = packet.data_type
              /\ packet'.variable_count = packet.variable_count]_vars

\* The second float of a packet was appended.
C9_Witness ==
    /\ call = Call("packet_add_float", FALSE, 0, NoArgs)
    /\ packet.payload_length = 8
    /\ Len(appended) = 2

\* C10: packet_init fails exactly when the packet pointer is null or
\* variable_count is 0 or above 255, and then leaves the packet untouched; on
\* success it stores slave_address, data_type and variable_count and resets
\* the payload to empty, so that no element appended before the
\* re-initialisation is counted or serialized afterwards.
C10_PacketInit ==
    [][/\ (call'.op = "packet_serialize" /\ call'.ret # -1) =>
            /\ Len(buffer') = 3 + Len(appended') * get_type_size(packet'.data_type)
            /\ SubSeq(buffer', 4, Len(buffer')) = packet'.payload
       /\ call'.op = "packet_init" =>
          LET slave_addr == call'.args[1]
              type == call'.args[2]
              var_count == call'.args[3]
          IN  IF call'.null \/ var_count = 0 \/ var_count > 255
              THEN /\ call'.ret = -1
                   /\ packet' = packet
                   /\ appended' = appended
              ELSE /\ call'.ret = 0
                   /\ packet'.slave_address = slave_addr
                   /\ packet'.data_type = type
                   /\ packet'.variable_count = var_count
                   /\ packet'.payload_length = 0
                   /\ packet'.payload = <<>>
                   /\ FilledElements(packet') = 0
                   /\ appended' = <<>>]_vars

\* packet_init refused a var_count of 0 on a packet that holds two floats.
C10_Witness ==
    /\ call = Call("packet_init", FALSE, -1, <<2, DATA_TYPE_FLOAT, 0>>)
    /\ packet.data_type = DATA_TYPE_FLOAT
    /\ Len(appended) = 2
    /\ packet.payload_length = 8

\* C11: a type code outside INT, FLOAT and DOUBLE is a validation failure of
\* the build side: packet_serialize returns an error for a builder of an
\* unrecognised data_type, and no packet that carries such a type code, header
\* only or other, is emitted.
C11_UnknownTypeRefused ==
    /\ (Serialized /\ packet.data_type \notin KnownTypes) =>
          (call.ret = -1 /\ buffer = <<>>)
    /\ Len(buffer) >= 3 => buffer[2] \in KnownTypes

\* C12: packet_serialize has no effect on the builder. Whether it succeeds
\* or fails, every field and every payload byte of the packet is as before
\* the call, and a second call on the unchanged builder yields the return
\* value and the output bytes of the first.
C12_SerializeKeepsBuilder ==
    [][call'.op = "packet_serialize" =>
          /\ packet' = packet
          /\ appended' = appended
          /\ (Serialized /\ ~call'.null) =>
                (call'.ret = call.ret /\ buffer' = buffer)]_vars

\* A packet of three floats was serialized to its 15 bytes.
C12_Witness ==
    /\ Serialized
    /\ call.ret = 15
    /\ packet.data_type = DATA_TYPE_FLOAT
    /\ packet.payload_length = 12
    /\ Len(buffer) = 15

\* The last call was an append of another type than the packet's, refused.
TypeMismatchRefused ==
    /\ call.op \in AddOps
    /\ ~call.null
    /\ call.op # AddOpOf(packet.data_type)
    /\ call.ret # 0

\* The step is an append of the packet's type, refused on a packet that
\* holds its variable_count elements.
CapacityRefusal ==
    /\ call'.op = AddOpOf(packet.data_type)
    /\ ~call'.null
    /\ Len(appended) = packet.variable_count
    /\ call'.ret # 0

C14_DecoderExactness ==
    decoded # <<>> =>
        LET r == decoded[1]
            n == Len(received)
        IN  /\ n < 3 => (r.error = "TooShort" /\ r.values = <<>>)
            /\ (n >= 3 /\ received[2] \in KnownTypes) =>
                  LET w == get_type_size(received[2])
                      count == received[3]
                  IN  IF n - 3 = count * w
                      THEN /\ r.error = "none"
                           /\ Len(r.values) = count
                           /\ \A k \in 1..count :
                                 r.values[k] =
                                     Reverse(SubSeq(received, 4 + (k - 1) * w,
                                                    3 + k * w))
                      ELSE /\ r.error = "TruncatedOrOversizedPayload"
                           /\ r.values = <<>>

\* A frame of one float with 5 payload bytes, one too many, was rejected.
C14_Witness ==
    /\ Len(received) = 8
    /\ received[2] = DATA_TYPE_FLOAT
    /\ received[3] = 1
    /\ decoded = <<DecodeError("TruncatedOrOversizedPayload")>>

\* C15: decoding a frame of 3 bytes or more whose byte 1 is none of 1, 2, 3
\* fails with the unknown-type error, whatever the count and the payload:
\* decoding 05 09 01 00 fails with UnknownType.
C15_UnknownTypeRejected ==
    /\ (decoded # <<>> /\ Len(received) >= 3 /\ received[2] \notin {1, 2, 3}) =>
          decoded = <<DecodeError("UnknownType")>>
    /\ (decoded # <<>> /\ received = <<5, 9, 1, 0>>) =>
          decoded[1].error = "UnknownType"

\* The frame 05 09 01 00 was decoded.
C15_Witness ==
    /\ received = <<5, 9, 1, 0>>
    /\ decoded = <<DecodeError("UnknownType")>>

\* C16: get_type_size is total. It returns 1 for DATA_TYPE_INT (0x01), 4 for
\* DATA_TYPE_FLOAT (0x02), 8 for DATA_TYPE_DOUBLE (0x03) and the sentinel 0
\* for every other code.
C16_TypeSizeTotal ==
    call.op = "get_type_size" =>
        LET type == call.args[1]
        IN  /\ type = 1 => call.ret = 1
            /\ type = 2 => call.ret = 4
            /\ type = 3 => call.ret = 8
            /\ type \notin {1, 2, 3} => call.ret = 0

\* get_type_size was asked about the code 255 and returned the sentinel.
C16_Witness ==
    call = Call("get_type_size", FALSE, 0, <<255>>)

\* C17: the elements of more than one byte are written least significant
\* byte first, whatever the byte order of the host: the bytes of the element
\* appended last are the reverse of its bit pattern, the float 3.25 gives the
\* payload 00 00 50 40 and the double 1.0 gives 00 00 00 00 00 00 F0 3F.
C17_LittleEndian ==
    (packet.data_type \in {DATA_TYPE_FLOAT, DATA_TYPE_DOUBLE}
        /\ Len(appended) >= 1) =>
        LET w == get_type_size(packet.data_type)
            n == Len(appended)
        IN  /\ SubSeq(packet.payload, (n - 1) * w + 1, n * w)
                  = Reverse(appended[n])
            /\ appended[1] = <<64, 80, 0, 0>> =>
                  SubSeq(packet.payload, 1, 4) = <<0, 0, 80, 64>>
            /\ appended[1] = <<63, 240, 0, 0, 0, 0, 0, 0>> =>
                  SubSeq(packet.payload, 1, 8) = <<0, 0, 0, 0, 0, 0, 240, 63>>

\* Both callers of the shared packet are outside their appends.
Quiescent == \A c \in Callers : callers[c].pc = "idle"

\* The element at the 1-based position k of the shared packet is the value
\* of neither caller.
MixedElement(k) ==
    LET w == get_type_size(packet.data_type)
    IN  \A c \in Callers :
            SubSeq(packet.payload, (k - 1) * w + 1, k * w)
                # DataValue_bytes(SharedValue(c, packet.data_type), host_order)

\* The shared packet holds more elements than it declares.
SharedOverfilled == FilledElements(packet) > packet.variable_count

\* The payload_length of the shared packet is no multiple of the width.
SharedMisaligned ==
    packet.payload_length % get_type_size(packet.data_type) # 0

\* An element of the shared packet has bytes of both callers.
SharedMixed == \E k \in 1..FilledElements(packet) : MixedElement(k)

\* C18: appends are not atomic with respect to each other. Two callers that
\* share a packet and whose appends interleave can leave it with more
\* elements than variable_count, with a payload_length that is no multiple of
\* the width, or with an element whose bytes come from both; as long as no
\* append began during another, none of the three happens.
C18_OnlyInterleavedAppendsBreak ==
    (Quiescent /\ (SharedOverfilled \/ SharedMisaligned \/ SharedMixed)) =>
        overlapped

\* Both appends have returned 0; the packet of two floats holds 7 bytes, and
\* its one whole element has bytes of both callers.
C18_Witness ==
    /\ Quiescent
    /\ \A c \in Callers : callers[c].calls = 1 /\ callers[c].ret = 0
    /\ packet.data_type = DATA_TYPE_FLOAT
    /\ packet.variable_count = 2
    /\ packet.payload_length = 7
    /\ SharedMisaligned
    /\ SharedMixed

\* C19: a failed receive leaves no partial entity. Whenever receive_packet
\* returns false, for fewer than 3 bytes available or for a header whose
\* payload_length exceeds MAX_PAYLOAD_SIZE, the caller's Packet is as before
\* the call and no byte has been taken from the serial stream.
C19_FailedReceiveLeavesNoTrace ==
    [][(rx.pc = "idle" /\ rx'.pc = "idle" /\ rx'.ret = "false"
           /\ incoming' = incoming) =>
          (received_packet' = received_packet /\ serial_rx' = serial_rx)]_vars

\* C20: receive_packet returns true only for a valid packet. The stored
\* payload_length is at most MAX_PAYLOAD_SIZE (64), the call has taken the 3
\* header bytes and exactly payload_length payload bytes from Serial, these
\* stand in arrival order at payload[0 .. payload_length-1], and no element
\* above payload[63] is ever written.
C20_ReceivedPacketValid ==
    /\ ~rx.oob
    /\ Len(received_packet.payload) = MAX_PAYLOAD_SIZE
    /\ rx.pc = "payload" =>
          /\ rx.bytes_read <= received_packet.payload_length
          /\ received_packet.payload_length <= 64
    /\ (rx.pc = "idle" /\ rx.ret = "true") =>
          /\ received_packet.payload_length <= 64
          /\ Len(rx.taken) = 3 + received_packet.payload_length
          /\ received_packet.slave_address = rx.taken[1]
          /\ received_packet.data_type = rx.taken[2]
          /\ received_packet.payload_length = rx.taken[3]
          /\ \A k \in 1..received_packet.payload_length :
                received_packet.payload[k] = rx.taken[3 + k]

\* receive_packet returned true for the packet of 64 payload bytes.
C20_Witness ==
    /\ rx.pc = "idle"
    /\ rx.ret = "true"
    /\ received_packet.payload_length = 64
    /\ received_packet.payload = RxPayload(64)
    /\ serial_rx = <<>>
    /\ incoming = <<>>

\* receive_packet is in its payload loop and the peer has sent the payload
\* bytes that the loop still waits for.
PayloadOnItsWay ==
    /\ rx.pc = "payload"
    /\ Len(serial_rx) + Len(incoming)
          >= received_packet.payload_length - rx.bytes_read

\* receive_packet is in its payload loop and the peer has stopped short of
\* the payload bytes that the loop still waits for.
PayloadCutShort ==
    /\ rx.pc = "payload"
    /\ Len(serial_rx) + Len(incoming)
          < received_packet.payload_length - rx.bytes_read

\* C21: receive_packet terminates. A call that has read a header with
\* payload_length L <= 64 returns in the end if the serial source delivers L
\* further bytes; if the sender stops after fewer than L payload bytes the
\* call stays in its loop for ever, the function having no timeout.
C21_ReceiveTerminates ==
    /\ PayloadOnItsWay ~> (rx.pc = "idle" /\ rx.ret = "true")
    /\ [](PayloadCutShort => [](rx.pc = "payload"))

\* receive_packet returned true for the packet of two payload bytes, with
\* the next packet still on the line.
C21_Witness ==
    /\ rx.pc = "idle"
    /\ rx.ret = "true"
    /\ rx.taken = <<1, 2, 2, 100, 101>>
    /\ Len(serial_rx) + Len(incoming) = 3

\* C22: in the sketch, after any sequence of packet_init and packetize_data
\* calls, current_packet.payload_length is at most MAX_PAYLOAD_SIZE (64).
\* packetize_data with data_length <= 64 copies exactly those bytes in order
\* and sets payload_length to data_length; with data_length > 64 it copies
\* nothing and sets payload_length to 0; either way slave_address and
\* data_type are as before.
C22_PayloadBounded ==
    [][/\ current_packet.payload_length <= 64
       /\ current_packet'.payload_length <= 64
       /\ Len(current_packet'.payload) = 64
       /\ sketch'.op = "packetize_data" =>
             LET data_stream == sketch'.args[1]
                 data_length == sketch'.args[2]
             IN  /\ current_packet'.slave_address = current_packet.slave_address
                 /\ current_packet'.data_type = current_packet.data_type
                 /\ IF data_length <= 64
                    THEN /\ current_packet'.payload_length = data_length
                         /\ \A k \in 1..64 :
                               current_packet'.payload[k] =
                                   IF k <= data_length THEN data_stream[k]
                                   ELSE current_packet.payload[k]
                    ELSE /\ current_packet'.payload_length = 0
                         /\ current_packet'.payload = current_packet.payload]_vars

\* packetize_data was called with 65 bytes on the packet of slave 1 that
\* held the four bytes of loop(): payload_length is 0, the four bytes are
\* where they were.
C22_Witness ==
    /\ sketch.op = "packetize_data"
    /\ sketch.args[2] = 65
    /\ current_packet.slave_address = 1
    /\ current_packet.payload_length = 0
    /\ SubSeq(current_packet.payload, 1, 5) = <<170, 187, 204, 221, 0>>

\* What the latest call of the sketch put on the serial channel, and the
\* bytes of it that went out by Serial.write.
Emitted == SubSeq(serial_tx, sketch.from + 1, Len(serial_tx))

WrittenBytes(tx) ==
    LET w == SelectSeq(tx, LAMBDA e : e.by = "write")
    IN  [k \in 1..Len(w) |-> w[k].byte]

\* C23: output_packet sends with Serial.write first the slave address, then
\* the data type, then the payload length, then exactly payload_length
\* payload bytes in index order, and it does not modify current_packet.
C23_OutputOrder ==
    [][sketch'.op = "output_packet" =>
         LET n   == current_packet.payload_length
             out == SubSeq(serial_tx', Len(serial_tx) + 1, Len(serial_tx'))
         IN  /\ current_packet' = current_packet
             /\ SubSeq(serial_tx', 1, Len(serial_tx)) = serial_tx
             /\ Len(out) >= 3 + n
             /\ SubSeq(out, 1, 3 + n) =
                    Written(<<current_packet.slave_address,
                              current_packet.data_type, n>>
                            \o [k \in 1..n |-> current_packet.payload[k]])
             /\ \A k \in (3 + n + 1)..Len(out) : out[k].by # "write"]_vars

\* output_packet has sent the packet that setup() and loop() make: 0x01,
\* 0xFF, 4, 0xAA, 0xBB, 0xCC, 0xDD went out by Serial.write in this order.
C23_Witness ==
    /\ sketch.op = "output_packet"
    /\ current_packet.payload_length = 4
    /\ WrittenBytes(Emitted) = <<1, 255, 4, 170, 187, 204, 221>>

\* The places of the serial stream that hold a byte sent by Serial.write.
WrittenAt == {k \in 1..Len(serial_tx) : serial_tx[k].by = "write"}

\* C24: the serial byte stream of the sketch holds only packet bytes:
\* between the last payload byte of one packet and the first header byte of
\* the next no other byte (such as debug text) is on the same channel, so
\* that a receiver taking 3 + payload_length bytes per packet stays aligned.
\* Stated for the stream from its first packet byte to its last one.
C24_OnlyPacketBytes ==
    \A j \in 1..Len(serial_tx) :
        /\ \E i \in WrittenAt : i < j
        /\ \E k \in WrittenAt : j < k
        => j \in WrittenAt

\* C25: every packet that output_packet of the sketch emits is a well-formed
\* packet of the codec: its byte 1 is one of the type codes 1, 2, 3 and the
\* number of payload bytes after the three header bytes is byte 2 times the
\* width of the type in byte 1.
C25_SketchEmitsCodecPackets ==
    sketch.op = "output_packet" =>
        LET b == WrittenBytes(Emitted)
        IN  /\ Len(b) >= 3
            /\ b[2] \in KnownTypes
            /\ Len(b) - 3 = b[3] * get_type_size(b[2])

\* C26: the byte-ceiling check of an append (payload_length + width >
\* 255 * width) is never the deciding check: in every state reached through
\* the API after a successful packet_init, whenever the declared-count check
\* passes the ceiling check passes too, so that an append to a packet of its
\* own type is refused only with variable_count elements in place; and
\* payload_length never exceeds the payload buffer of 2040 bytes.
C26_CeilingNeverDecides ==
    /\ packet.payload_length <= PAYLOAD_CAPACITY
    /\ packet.data_type \in KnownTypes =>
          LET type_size == get_type_size(packet.data_type)
              current_count == UINT8(packet.payload_length \div type_size)
          IN  /\ packet.payload_length % type_size = 0
              /\ ~(current_count >= packet.variable_count) =>
                    ~(packet.payload_length + type_size > 255 * type_size)
    /\ ( /\ packet.data_type \in KnownTypes
         /\ call.op = AddOpOf(packet.data_type)
         /\ ~call.null
         /\ call.ret = -1 )
       => FilledElements(packet) >= packet.variable_count

\* The 255th value has been appended to a packet of 255 doubles: with 2032
\* bytes in place the count check passed, and the ceiling check passed at
\* its limit, 2032 + 8 being 255 * 8, which is the size of the payload array.
C26_Witness ==
    /\ packet.data_type = DATA_TYPE_DOUBLE
    /\ packet.variable_count = 255
    /\ packet.payload_length = PAYLOAD_CAPACITY
    /\ call.op = "packet_add_double"
    /\ call.ret = 0

====
